---- MODULE Spec2Model ----
(***************************************************************************)
(* Blackjack (src/src/main.rs): the hand valuation hand_scores, the input  *)
(* readers read_bet_amount / confirm, and the session loop of main, as a   *)
(* state machine.  Lines read from the terminal are sequences of one-      *)
(* character strings, so that trim, to_lowercase, starts_with and parse    *)
(* are computed as the library computes them.                              *)
(***************************************************************************)
EXTENDS Integers, Sequences, FiniteSets, TLC

(***************************************************************************)
(* Bounds of the model.                                                    *)
(***************************************************************************)
\* shuffles considered: the gathered deck is dealt out with every stride
\* 1..MaxStride that is coprime to 52
MaxStride == 3
\* the user varies the bet in the first MaxFreeRounds rounds of a session and
\* bets the minimum afterwards
MaxFreeRounds == 1
\* hands of 1..MaxHandLen cards are given to hand_scores in SpecScores
MaxHandLen == 3

(***************************************************************************)
(* Program constants.                                                      *)
(***************************************************************************)
NumRanks == 13
NumSuits == 4
DeckSize == 52
StartMoney == 1000
BlackjackScore == 21
DealerStand == 17
SoftBonus == 10
I32Max == 2147483647
I8Max == 127

(***************************************************************************)
(* Characters and strings.                                                 *)
(***************************************************************************)
Upper == << "A","B","C","D","E","F","G","H","I","J","K","L","M",
            "N","O","P","Q","R","S","T","U","V","W","X","Y","Z" >>
Lower == << "a","b","c","d","e","f","g","h","i","j","k","l","m",
            "n","o","p","q","r","s","t","u","v","w","x","y","z" >>
Digits == << "0","1","2","3","4","5","6","7","8","9" >>
White == { " ", "\t", "\n", "\r" }

LowerChar(c) ==
    IF \E i \in DOMAIN Upper : Upper[i] = c
    THEN Lower[CHOOSE i \in DOMAIN Upper : Upper[i] = c]
    ELSE c

\* str::to_lowercase
to_lowercase(s) == [i \in 1..Len(s) |-> LowerChar(s[i])]

\* str::trim: strips leading and trailing whitespace
trim(s) ==
    LET keep == { i \in 1..Len(s) : s[i] \notin White }
    IN  IF keep = {} THEN << >>
        ELSE LET first == CHOOSE i \in keep : \A j \in keep : i <= j
                 last  == CHOOSE i \in keep : \A j \in keep : j <= i
             IN  SubSeq(s, first, last)

\* str::starts_with(char)
starts_with(s, c) == Len(s) >= 1 /\ s[1] = c

IsDigit(c) == \E i \in DOMAIN Digits : Digits[i] = c
DigitVal(c) == (CHOOSE i \in DOMAIN Digits : Digits[i] = c) - 1

\* the checked accumulation of str::parse::<i32>: positive numbers are built
\* with checked_mul/checked_add, negative ones with checked_mul/checked_sub;
\* the result is [ok, val]
RECURSIVE ParseDigits(_, _, _)
ParseDigits(s, acc, neg) ==
    IF s = << >> THEN [ok |-> TRUE, val |-> acc]
    ELSE IF ~IsDigit(s[1]) THEN [ok |-> FALSE, val |-> 0]
    ELSE LET d == DigitVal(s[1])
         IN  IF neg
             THEN IF acc < -((I32Max - (IF d = 0 THEN 0 ELSE d - 1)) \div 10)
                  THEN [ok |-> FALSE, val |-> 0]
                  ELSE ParseDigits(Tail(s), acc * 10 - d, neg)
             ELSE IF acc > (I32Max - d) \div 10
                  THEN [ok |-> FALSE, val |-> 0]
                  ELSE ParseDigits(Tail(s), acc * 10 + d, neg)

\* str::parse::<i32>: optional sign, then at least one digit, within i32
parse_i32(s) ==
    IF s = << >> THEN [ok |-> FALSE, val |-> 0]
    ELSE LET signed == s[1] \in {"+", "-"}
             digits == IF signed THEN Tail(s) ELSE s
         IN  IF digits = << >> THEN [ok |-> FALSE, val |-> 0]
             ELSE ParseDigits(digits, 0, s[1] = "-")

\* the decimal text of a natural number, as a user types it
RECURSIVE Decimal(_)
Decimal(n) ==
    IF n < 10 THEN << Digits[n + 1] >>
    ELSE Append(Decimal(n \div 10), Digits[(n % 10) + 1])

Line(s) == Append(s, "\n")

(***************************************************************************)
(* Cards and the deck.                                                     *)
(***************************************************************************)
Suits == << "Hearts", "Diamonds", "Clubs", "Spades" >>

\* Card::new
Card(value, suit) == [value |-> value, suit |-> suit]

\* Deck::new: suit-major, values 1..13 within each suit
NewDeck ==
    [i \in 1..DeckSize |->
        Card(((i - 1) % NumRanks) + 1, Suits[((i - 1) \div NumRanks) + 1])]

RECURSIVE Gcd(_, _)
Gcd(a, b) == IF b = 0 THEN a ELSE Gcd(b, a % b)

\* two ways of gathering the 52 cards before the cut: as built (suit by suit),
\* or rank by rank (the four aces, the four twos, ...)
Layouts == { "bySuit", "byRank" }
Gather(layout, j) ==
    IF layout = "bySuit" THEN j
    ELSE (j % NumSuits) * NumRanks + (j \div NumSuits)

\* Deck::shuffle leaves some permutation of the 52 cards; the permutations
\* considered here are: gather, then deal out with stride `stride`
Shuffled(layout, stride) ==
    [i \in 1..DeckSize |->
        NewDeck[Gather(layout, ((i - 1) * stride) % DeckSize) + 1]]

Shuffles ==
    { Shuffled(l, s) : l \in Layouts,
                       s \in { t \in 1..MaxStride : Gcd(DeckSize, t) = 1 } }

(***************************************************************************)
(* Hand valuation.                                                         *)
(***************************************************************************)
\* the match of lines 87-94
card_points(value) ==
    CASE value = 1 -> 1
      [] value \in 11..13 -> 10
      [] OTHER -> value

\* the for loop of lines 86-95: left to right, carrying total and seen_ace
RECURSIVE ScanCards(_, _, _)
ScanCards(cards, total, seen_ace) ==
    IF cards = << >> THEN [total |-> total, seen_ace |-> seen_ace]
    ELSE ScanCards(Tail(cards),
                   total + card_points(Head(cards).value),
                   seen_ace \/ Head(cards).value = 1)

\* hand_scores with the promotion refused at exactly 21
hand_scores_below21(cards) ==
    LET r == ScanCards(cards, 0, FALSE)
    IN  IF r.seen_ace /\ r.total + SoftBonus < BlackjackScore
        THEN << r.total, r.total + SoftBonus >>
        ELSE << r.total >>

\* hand_scores promoting an ace only when it is the first card
hand_scores_first_card(cards) ==
    LET r == ScanCards(cards, 0, FALSE)
    IN  IF cards # << >> /\ cards[1].value = 1 /\ r.total + SoftBonus <= BlackjackScore
        THEN << r.total, r.total + SoftBonus >>
        ELSE << r.total >>

\* hand_scores promoting an ace whatever the promoted total
hand_scores_always_soft(cards) ==
    LET r == ScanCards(cards, 0, FALSE)
    IN  IF r.seen_ace
        THEN << r.total, r.total + SoftBonus >>
        ELSE << r.total >>

\* lines 97-102
hand_scores(cards) ==
    LET r == ScanCards(cards, 0, FALSE)
    IN  IF r.seen_ace /\ r.total + SoftBonus <= BlackjackScore
        THEN << r.total, r.total + SoftBonus >>
        ELSE << r.total >>

MaxOf(scores) == CHOOSE m \in { scores[i] : i \in DOMAIN scores } :
                    \A i \in DOMAIN scores : scores[i] <= m

(***************************************************************************)
(* The readers.                                                            *)
(***************************************************************************)
\* read_bet_amount without the test against the bankroll
BetVerdictNoCap(input, max) ==
    LET p == parse_i32(trim(input))
    IN  IF ~p.ok THEN "retry"
        ELSE IF p.val <= 0 THEN "retry"
        ELSE "accept"

\* read_bet_amount with the test against the bankroll off by one
BetVerdictOneOver(input, max) ==
    LET p == parse_i32(trim(input))
    IN  IF ~p.ok THEN "retry"
        ELSE IF p.val > max + 1 THEN "too_much"
        ELSE IF p.val <= 0 THEN "retry"
        ELSE "accept"

\* one iteration of the loop of read_bet_amount on the line `input`:
\* "accept" returns the number, the other verdicts re-prompt
BetVerdict(input, max) ==
    LET p == parse_i32(trim(input))
    IN  IF ~p.ok THEN "retry"
        ELSE IF p.val > max THEN "too_much"
        ELSE IF p.val <= 0 THEN "retry"
        ELSE "accept"

BetValue(input) == parse_i32(trim(input)).val

\* confirm comparing the trimmed answer without lower-casing it
confirm_case_sensitive(input) ==
    LET a == trim(input)
    IN  CASE a \in { <<"y">>, <<"y","e","s">> } -> TRUE
          [] a \in { <<"n">>, <<"n","o">> } -> FALSE
          [] OTHER -> TRUE

\* confirm: only "n" and "no" (trimmed, lower-cased) answer false
confirm(input) ==
    LET a == to_lowercase(trim(input))
    IN  CASE a \in { <<"y">>, <<"y","e","s">> } -> TRUE
          [] a \in { <<"n">>, <<"n","o">> } -> FALSE
          [] OTHER -> TRUE

\* the answer trimmed before it is matched
DecisionTrimmed(input) ==
    LET answer == to_lowercase(trim(input))
    IN  IF starts_with(answer, "h") THEN "hit"
        ELSE IF starts_with(answer, "s") THEN "stand"
        ELSE "again"

\* the branch taken on the answer to "[h]it or [s]tand?" (no trim here)
Decision(input) ==
    LET answer == to_lowercase(input)
    IN  IF starts_with(answer, "h") THEN "hit"
        ELSE IF starts_with(answer, "s") THEN "stand"
        ELSE "again"

(***************************************************************************)
(* Lines the user may type.                                                *)
(***************************************************************************)
MinBetLines(bankroll) ==
    { Line(<<" ","+","1"," ">>), Line(Decimal(bankroll + 1)),
      Line(<<"0">>), Line(<<"-","5">>), Line(<<"a","l","l">>),
      Line(<<"3","0","0","0","0","0","0","0","0","0">>), << >> }

BetLines(bankroll, played) ==
    IF played < MaxFreeRounds
    THEN MinBetLines(bankroll) \cup
         { Line(<<"1","0","0">>), Line(Decimal(bankroll)) }
    ELSE MinBetLines(bankroll)

DecisionLines ==
    { Line(<<"h">>), Line(<<"H","i","t">>), Line(<<"s">>), Line(<<"S","T","A","N","D">>),
      Line(<<" ","h">>), Line(<<"d">>) }

ConfirmLines ==
    { Line(<<"y">>), Line(<<"Y","E","S">>), Line(<<"n">>), Line(<<" ","N","o"," ">>),
      Line(<<"n","o","p","e">>), Line(<< >>) }

(***************************************************************************)
(* State of main (and of the tests of hand_scores).                        *)
(***************************************************************************)
VARIABLES
    deck,           \* deck.cards; draw pops the last element
    money,          \* the bankroll
    bet,            \* the bet of the round in progress (0 between rounds)
    player_hand,
    dealer_hand,
    player_scores,  \* hand_scores of the hands as last computed by main
    dealer_scores,
    pc,             \* where main stands
    out,            \* the last message printed (prompts and hands aside)
    stdin_line,     \* the line read by the step just taken (NoLine if none)
    round_money,    \* history: the bankroll when the round's bet was asked for
    rounds,         \* history: the number of rounds started
    dealer_played,  \* history: the round reached the else branch of line 207
    drawn,          \* history: the number of cards deck.draw() has returned
    hand,           \* tests: the Vec<Card> handed to hand_scores
    result          \* tests: what hand_scores returned for it

vars == << deck, money, bet, player_hand, dealer_hand, player_scores,
           dealer_scores, pc, out, stdin_line, round_money, rounds,
           dealer_played, drawn, hand, result >>

NoLine == << "-none-" >>

Init ==
    /\ deck \in Shuffles
    /\ money = StartMoney
    /\ bet = 0
    /\ player_hand = << >>
    /\ dealer_hand = << >>
    /\ player_scores = << >>
    /\ dealer_scores = << >>
    /\ pc = "Betting"
    /\ out = "You have"
    /\ stdin_line = NoLine
    /\ round_money = StartMoney
    /\ rounds = 0
    /\ dealer_played = FALSE
    /\ drawn = 0
    /\ hand = << >>
    /\ result = << >>

\* an empty deck rebuilt instead of the panic
PanicRebuildsDeck(line) ==
    /\ deck' = NewDeck
    /\ out' = line
    /\ UNCHANGED << money, bet, player_hand, dealer_hand, player_scores,
                    dealer_scores, pc, round_money, rounds, dealer_played, drawn >>

\* deck.draw().unwrap() on an empty deck
Panic(line) ==
    /\ pc' = "Panicked"
    /\ out' = line
    /\ UNCHANGED << deck, money, bet, player_hand, dealer_hand, player_scores,
                    dealer_scores, round_money, rounds, dealer_played, drawn >>

Top(d) == d[Len(d)]

\* a draw that leaves the card in the deck
PopKeepsCard(d) == d

Pop(d) == SubSeq(d, 1, Len(d) - 1)

\* lines 172-176: read_bet_amount(money), one line of input at a time
ReadBet ==
    /\ pc = "Betting"
    /\ \E input \in BetLines(money, rounds) :
        /\ stdin_line' = input
        /\ LET v == BetVerdict(input, money)
           IN  CASE v = "accept" ->
                       /\ bet' = BetValue(input)
                       /\ money' = money - BetValue(input)
                       /\ round_money' = money
                       /\ rounds' = rounds + 1
                       /\ pc' = "Deal"
                       /\ UNCHANGED out
                 [] v = "too_much" ->
                       /\ out' = "You don't have that much money"
                       /\ UNCHANGED << bet, money, round_money, rounds, pc >>
                 [] OTHER ->
                       UNCHANGED << bet, money, round_money, rounds, pc, out >>
    /\ UNCHANGED << deck, player_hand, dealer_hand, player_scores,
                    dealer_scores, dealer_played, drawn, hand, result >>

\* lines 178-189: player, dealer, player, dealer; then both hands are scored
DealCard ==
    /\ pc = "Deal"
    /\ IF deck = << >>
       THEN Panic("panicked at src/main.rs:178-182")
       ELSE /\ deck' = Pop(deck)
            /\ drawn' = drawn + 1
            /\ IF Len(player_hand) = Len(dealer_hand)
               THEN /\ player_hand' = Append(player_hand, Top(deck))
                    /\ UNCHANGED << dealer_hand, player_scores, dealer_scores, pc, out >>
               ELSE /\ dealer_hand' = Append(dealer_hand, Top(deck))
                    /\ UNCHANGED player_hand
                    /\ IF Len(dealer_hand) = 1
                       THEN /\ player_scores' = hand_scores(player_hand)
                            /\ dealer_scores' = hand_scores(dealer_hand')
                            /\ pc' = "PlayerTurn"
                            /\ out' = "Dealer: ??"
                       ELSE UNCHANGED << player_scores, dealer_scores, pc, out >>
            /\ UNCHANGED << money, bet, round_money, rounds, dealer_played >>
    /\ stdin_line' = NoLine
    /\ UNCHANGED << hand, result >>

\* the loop test without the break on a score of exactly 21
PlayerMayActLowOnly(scores) == scores[1] < BlackjackScore

\* the loop test letting the player act on a lowest score of 21
PlayerMayActAt21(scores) == scores[1] <= BlackjackScore

\* the conditions of lines 191-194 under which the player is asked
PlayerMayAct(scores) ==
    /\ scores[1] < BlackjackScore
    /\ ~ \E i \in DOMAIN scores : scores[i] = BlackjackScore

\* lines 191-195: the loop test, then the prompt
PlayerLoop ==
    /\ pc = "PlayerTurn"
    /\ pc' = IF PlayerMayAct(player_scores) THEN "AwaitDecision" ELSE "BustCheck"
    /\ stdin_line' = NoLine
    /\ UNCHANGED << deck, money, bet, player_hand, dealer_hand, player_scores,
                    dealer_scores, out, round_money, rounds, dealer_played,
                    drawn, hand, result >>

\* lines 195-202: the answer
PlayerAnswer ==
    /\ pc = "AwaitDecision"
    /\ \E input \in DecisionLines :
        /\ stdin_line' = input
        /\ LET d == Decision(input)
           IN  CASE d = "hit" ->
                       IF deck = << >>
                       THEN Panic("panicked at src/main.rs:197")
                       ELSE /\ deck' = Pop(deck)
                            /\ drawn' = drawn + 1
                            /\ player_hand' = Append(player_hand, Top(deck))
                            /\ player_scores' = hand_scores(player_hand')
                            /\ pc' = "PlayerTurn"
                            /\ UNCHANGED << money, bet, dealer_hand, dealer_scores,
                                            out, round_money, rounds, dealer_played >>
                 [] d = "stand" ->
                       /\ pc' = "BustCheck"
                       /\ UNCHANGED << deck, money, bet, player_hand, dealer_hand,
                                       player_scores, dealer_scores, out,
                                       round_money, rounds, dealer_played, drawn >>
                 [] OTHER ->
                       /\ pc' = "PlayerTurn"
                       /\ UNCHANGED << deck, money, bet, player_hand, dealer_hand,
                                       player_scores, dealer_scores, out,
                                       round_money, rounds, dealer_played, drawn >>
    /\ UNCHANGED << hand, result >>

\* the bust test off by one
PlayerBustOver22(scores) == \A i \in DOMAIN scores : scores[i] > BlackjackScore + 1

\* line 205
PlayerBust(scores) == \A i \in DOMAIN scores : scores[i] > BlackjackScore

\* lines 205-209
BustCheck ==
    /\ pc = "BustCheck"
    /\ IF PlayerBust(player_scores)
       THEN /\ out' = "You bust!"
            /\ pc' = "RoundEnd"
            /\ UNCHANGED dealer_played
       ELSE /\ out' = "Dealer's Play"
            /\ pc' = "DealerTurn"
            /\ dealer_played' = TRUE
    /\ stdin_line' = NoLine
    /\ UNCHANGED << deck, money, bet, player_hand, dealer_hand, player_scores,
                    dealer_scores, round_money, rounds, drawn, hand, result >>

\* a dealer who hits a soft 17: the test on the lowest score
DealerHitsSoft17(scores) == scores[1] < DealerStand

\* line 211: the test of the dealer's loop
DealerMustDraw(scores) == MaxOf(scores) < DealerStand

\* lines 211-214
DealerTurn ==
    /\ pc = "DealerTurn"
    /\ IF DealerMustDraw(dealer_scores)
       THEN IF deck = << >>
            THEN Panic("panicked at src/main.rs:212")
            ELSE /\ deck' = Pop(deck)
                 /\ drawn' = drawn + 1
                 /\ dealer_hand' = Append(dealer_hand, Top(deck))
                 /\ dealer_scores' = hand_scores(dealer_hand')
                 /\ UNCHANGED << money, bet, player_hand, player_scores, pc, out,
                                 round_money, rounds, dealer_played >>
       ELSE /\ pc' = "Resolution"
            /\ UNCHANGED << deck, money, bet, player_hand, dealer_hand,
                            player_scores, dealer_scores, out, round_money,
                            rounds, dealer_played, drawn >>
    /\ stdin_line' = NoLine
    /\ UNCHANGED << hand, result >>

\* what a win adds to money (lines 223 and 228)
WinPayout(b) == (b * 3) \div 2

\* a push that keeps the bet
PushKeepsBet(b) == 0

\* what a push adds to money (line 231)
PushPayout(b) == b

\* the resolution comparing the two best scores before looking for a
\* busted dealer
ResolveComparesFirst ==
    /\ pc = "Resolution"
    /\ LET dealer_best_score == MaxOf(dealer_scores)
           player_best_score == MaxOf(player_scores)
       IN  IF dealer_best_score > player_best_score
           THEN /\ out' = "Dealer wins!"
                /\ money' = money
           ELSE IF dealer_best_score > BlackjackScore
           THEN /\ out' = "Dealer busts! You win!"
                /\ money' = money + WinPayout(bet)
           ELSE IF dealer_best_score < player_best_score
           THEN /\ out' = "You win!"
                /\ money' = money + WinPayout(bet)
           ELSE /\ out' = "Push! Bet is returned."
                /\ money' = money + PushPayout(bet)
    /\ pc' = "RoundEnd"
    /\ stdin_line' = NoLine
    /\ UNCHANGED << deck, bet, player_hand, dealer_hand, player_scores,
                    dealer_scores, round_money, rounds, dealer_played,
                    drawn, hand, result >>

\* lines 215-232
Resolve ==
    /\ pc = "Resolution"
    /\ LET dealer_best_score == MaxOf(dealer_scores)
           player_best_score == MaxOf(player_scores)
       IN  IF dealer_best_score > BlackjackScore
           THEN /\ out' = "Dealer busts! You win!"
                /\ money' = money + WinPayout(bet)
           ELSE IF dealer_best_score > player_best_score
           THEN /\ out' = "Dealer wins!"
                /\ money' = money
           ELSE IF dealer_best_score < player_best_score
           THEN /\ out' = "You win!"
                /\ money' = money + WinPayout(bet)
           ELSE /\ out' = "Push! Bet is returned."
                /\ money' = money + PushPayout(bet)
    /\ pc' = "RoundEnd"
    /\ stdin_line' = NoLine
    /\ UNCHANGED << deck, bet, player_hand, dealer_hand, player_scores,
                    dealer_scores, round_money, rounds, dealer_played,
                    drawn, hand, result >>

\* the test of line 235 missing a bankroll of exactly zero
BrokeBelowZero(m) == m < 0

\* line 235
Broke(m) == m = 0

\* lines 235-239
RoundEnd ==
    /\ pc = "RoundEnd"
    /\ IF Broke(money)
       THEN /\ out' = "You're broke! Goodbye!"
            /\ pc' = "Done"
       ELSE /\ out' = "You have"
            /\ pc' = "AwaitConfirm"
    /\ stdin_line' = NoLine
    /\ UNCHANGED << deck, money, bet, player_hand, dealer_hand, player_scores,
                    dealer_scores, round_money, rounds, dealer_played,
                    drawn, hand, result >>

\* lines 240-244, and the start of the next iteration: the round's locals
\* (bet, hands, scores) go out of scope
ConfirmAnswer ==
    /\ pc = "AwaitConfirm"
    /\ \E input \in ConfirmLines :
        /\ stdin_line' = input
        /\ IF confirm(input)
           THEN /\ pc' = "Betting"
                /\ bet' = 0
                /\ player_hand' = << >>
                /\ dealer_hand' = << >>
                /\ player_scores' = << >>
                /\ dealer_scores' = << >>
                /\ dealer_played' = FALSE
                /\ round_money' = money
                /\ UNCHANGED out
           ELSE /\ pc' = "Done"
                /\ out' = "Thanks for playing!"
                /\ UNCHANGED << bet, player_hand, dealer_hand, player_scores,
                                dealer_scores, dealer_played, round_money >>
    /\ UNCHANGED << deck, money, rounds, drawn, hand, result >>

Next ==
    \/ ReadBet
    \/ DealCard
    \/ PlayerLoop
    \/ PlayerAnswer
    \/ BustCheck
    \/ DealerTurn
    \/ Resolve
    \/ RoundEnd
    \/ ConfirmAnswer

Spec == Init /\ [][Next]_vars

(***************************************************************************)
(* The tests of hand_scores: a hand is built card by card with Card::new,  *)
(* rearranged, and handed to hand_scores after each change.                *)
(***************************************************************************)
TestCards ==
    { Card(v, "Hearts") : v \in 1..NumRanks } \cup { Card(v, "Clubs") : v \in { 1, 9, 10 } }

InitScores ==
    /\ deck = NewDeck
    /\ money = StartMoney
    /\ bet = 0
    /\ player_hand = << >>
    /\ dealer_hand = << >>
    /\ player_scores = << >>
    /\ dealer_scores = << >>
    /\ pc = "Test"
    /\ out = ""
    /\ stdin_line = NoLine
    /\ round_money = StartMoney
    /\ rounds = 0
    /\ dealer_played = FALSE
    /\ drawn = 0
    /\ hand = << >>
    /\ result = hand_scores(hand)

main_vars == << deck, money, bet, player_hand, dealer_hand, player_scores,
                dealer_scores, pc, out, stdin_line, round_money, rounds,
                dealer_played, drawn >>

\* vec![..., Card::new(v, s).unwrap()] and the call
TestPush ==
    /\ Len(hand) < MaxHandLen
    /\ \E c \in TestCards :
        /\ hand' = Append(hand, c)
        /\ result' = hand_scores(hand')
    /\ UNCHANGED main_vars

\* the same cards with two of them exchanged, and the call
TestSwap ==
    /\ \E i, j \in 1..Len(hand) :
        /\ i < j
        /\ hand' = [hand EXCEPT ![i] = hand[j], ![j] = hand[i]]
        /\ result' = hand_scores(hand')
    /\ UNCHANGED main_vars

NextScores ==
    \/ TestPush
    \/ TestSwap

SpecScores == InitScores /\ [][NextScores]_vars

(***************************************************************************)
(* Properties.                                                             *)
(***************************************************************************)
PlayerTotals == hand_scores(player_hand)
DealerTotals == hand_scores(dealer_hand)
PlayerBest == MaxOf(PlayerTotals)
DealerBest == MaxOf(DealerTotals)
RoundOver == pc \in { "RoundEnd", "AwaitConfirm", "Done" }
AllOver21(totals) == \A i \in DOMAIN totals : totals[i] > 21
Promptable(totals) == totals[1] < 21 /\ \A i \in DOMAIN totals : totals[i] # 21

\* C1: a round resolved as a player win (dealer over 21, or dealer at most 21
\* and below the player) ends with the bankroll at
\* pre-round bankroll - bet + bet + floor(bet * 3 / 2).
C1_WinPaysBetPlusBonus ==
    (/\ RoundOver
     /\ dealer_played
     /\ \/ DealerBest > 21
        \/ DealerBest <= 21 /\ DealerBest < PlayerBest)
    => money = round_money - bet + bet + ((bet * 3) \div 2)

\* C2: a round resolved as a push (player not bust, equal best scores) ends
\* with the bankroll equal to the bankroll before the bet was placed.
C2_PushReturnsBet ==
    (RoundOver /\ dealer_played /\ DealerBest = PlayerBest)
    => money = round_money

C2_Witness ==
    /\ pc = "RoundEnd"
    /\ dealer_played
    /\ DealerBest = PlayerBest
    /\ bet = 100
    /\ money = round_money

\* C3: once every total of the player's hand is above 21 the round goes
\* straight to its end: the dealer's turn is never entered, the dealer holds
\* exactly the two cards dealt, and the bankroll is pre-round bankroll - bet.
C3_BustSkipsDealer ==
    AllOver21(PlayerTotals)
    => /\ pc \in { "PlayerTurn", "BustCheck", "RoundEnd", "AwaitConfirm", "Done" }
       /\ ~dealer_played
       /\ Len(dealer_hand) = 2
       /\ money = round_money - bet

C3_Witness ==
    /\ pc = "RoundEnd"
    /\ AllOver21(PlayerTotals)
    /\ out = "You bust!"
    /\ bet = 100
    /\ money = 900

\* C4: the dealer draws only from a hand whose best total is below 17 (so
\* never from 17 or more, soft or hard), and the resolution is evaluated only
\* with a dealer best total of at least 17.
C4_DealerStandsOn17 ==
    /\ pc = "Resolution" => DealerBest >= 17
    /\ \A n \in 2..(Len(dealer_hand) - 1) :
          MaxOf(hand_scores(SubSeq(dealer_hand, 1, n))) < 17

C4_Witness ==
    /\ pc = "Resolution"
    /\ Len(dealer_hand) > 2
    /\ Len(DealerTotals) = 2
    /\ DealerBest = 17

\* C5: in every round in which the dealer's turn is entered, the dealer's
\* loop ends, and it ends with a dealer best total of at least 17 (which
\* includes a busted dealer).
C5_DealerLoopEndsAt17 ==
    (dealer_played /\ pc # "DealerTurn") => DealerBest >= 17

\* the reference valuation of C6
RefFace(value) == IF value = 1 THEN 1 ELSE IF value >= 11 THEN 10 ELSE value
RECURSIVE RefBase(_, _)
RefBase(h, n) == IF n = 0 THEN 0 ELSE RefBase(h, n - 1) + RefFace(h[n].value)
RefScores(h) ==
    LET base_total == RefBase(h, Len(h))
        has_ace == \E i \in DOMAIN h : h[i].value = 1
    IN  IF has_ace /\ base_total + 10 <= 21
        THEN << base_total, base_total + 10 >>
        ELSE << base_total >>

\* C6: for every non-empty hand hand_scores returns the base total and, exactly
\* when the hand holds an ace and base total + 10 <= 21, base total + 10 after
\* it; so never more than two totals.
C6_ReferenceValuation ==
    hand # << >> => /\ result = RefScores(hand)
                    /\ Len(result) <= 2

C6_Witness ==
    /\ hand = << Card(5, "Hearts"), Card(1, "Hearts"), Card(1, "Hearts") >>
    /\ result = << 7, 17 >>

\* C7: hand_scores returns the same totals, in the same order, for every
\* permutation of the cards of a hand.
C7_OrderIndependent ==
    \A p \in Permutations(DOMAIN hand) :
        hand_scores([i \in DOMAIN hand |-> hand[p[i]]]) = result

C7_Witness ==
    /\ hand = << Card(10, "Clubs"), Card(9, "Clubs"), Card(1, "Clubs") >>
    /\ result = << 20 >>
    /\ hand_scores(<< hand[3], hand[1], hand[2] >>) = << 20 >>

\* C8: the player is asked, and draws, only with a lowest total below 21 and
\* no total equal to 21; a stand ends the player's turn at once.
C8_PlayerPromptGuard ==
    /\ pc = "AwaitDecision" => Promptable(PlayerTotals)
    /\ \A n \in 2..(Len(player_hand) - 1) :
          Promptable(hand_scores(SubSeq(player_hand, 1, n)))
    /\ (/\ pc \in { "PlayerTurn", "AwaitDecision", "BustCheck" }
        /\ stdin_line # NoLine
        /\ starts_with(to_lowercase(stdin_line), "s"))
       => pc = "BustCheck"

C8_Witness ==
    /\ pc = "BustCheck"
    /\ Len(player_hand) = 2
    /\ PlayerTotals = << 11, 21 >>
    /\ stdin_line = NoLine

\* C9: a line read in the betting phase is either rejected (not a number, at
\* most 0, or above the bankroll), and then bankroll, deck and hands are
\* unchanged and the bet is asked again; or accepted, and then
\* 0 < bet <= bankroll and the bet is deducted with no card dealt yet.
C9_BetStep ==
    LET p == parse_i32(trim(stdin_line'))
    IN  pc = "Betting"
        => IF ~p.ok \/ p.val <= 0 \/ p.val > money
           THEN /\ pc' = "Betting"
                /\ UNCHANGED << money, bet, deck, player_hand, dealer_hand >>
           ELSE /\ bet' = p.val
                /\ 0 < bet' /\ bet' <= money
                /\ money' = money - bet'
                /\ pc' = "Deal"
                /\ deck' = deck
                /\ player_hand' = << >> /\ dealer_hand' = << >>

C9_BetAcceptedInRange == [][C9_BetStep]_vars

C9_Witness ==
    /\ pc = "Deal"
    /\ out = "You don't have that much money"
    /\ player_hand = << >>
    /\ bet = round_money
    /\ money = 0

\* C10: a round that ends with a bankroll of zero ends the session without
\* the continue question being asked, and the session never bets again; with
\* another bankroll the session goes on exactly when the answer (trimmed,
\* lower-cased, as confirm reads it) is neither "n" nor "no".
C10_EndStep ==
    LET a == to_lowercase(trim(stdin_line'))
    IN  /\ pc' = "AwaitConfirm" => money' # 0
        /\ (pc = "RoundEnd" /\ money = 0) => pc' = "Done"
        /\ pc = "Done" => pc' = "Done"
        /\ pc = "AwaitConfirm"
           => /\ pc' \in { "Betting", "Done" }
              /\ (pc' = "Betting") <=> (a \notin { <<"n">>, <<"n","o">> })

C10_ZeroEndsSession == [][C10_EndStep]_vars

C10_Witness ==
    /\ pc = "Done"
    /\ money = 0
    /\ out = "You're broke! Goodbye!"

\* C11: the deck built and shuffled at the start is never refilled or
\* reshuffled (it only loses cards from its end), a draw on the empty deck
\* aborts the session, and nothing follows the abort.
C11_DeckStep ==
    /\ Len(deck') <= Len(deck)
    /\ deck' = SubSeq(deck, 1, Len(deck'))
    /\ (/\ deck = << >>
        /\ \/ pc = "Deal"
           \/ pc = "DealerTurn" /\ DealerBest < 17
           \/ pc = "AwaitDecision" /\ starts_with(to_lowercase(stdin_line'), "h"))
       => /\ pc' = "Panicked"
          /\ UNCHANGED << deck, money, player_hand, dealer_hand >>
    /\ (pc' = "Panicked" /\ pc # "Panicked") => deck = << >>
    /\ pc = "Panicked" => pc' = "Panicked"

C11_DeckExhaustionFatal == [][C11_DeckStep]_vars

C11_Witness ==
    /\ pc = "Panicked"
    /\ out = "panicked at src/main.rs:178-182"
    /\ deck = << >>
    /\ drawn = 52
    /\ money > 0
    /\ rounds >= 9

\* C12: a round resolved as a dealer win (player not bust, dealer at most 21
\* and above the player) ends at pre-round bankroll - bet; a busted dealer is
\* resolved as a player win, never as a dealer win.
C12_DealerWinKeepsBet ==
    /\ (RoundOver /\ dealer_played /\ DealerBest <= 21 /\ DealerBest > PlayerBest)
       => money = round_money - bet
    /\ (RoundOver /\ dealer_played /\ DealerBest > 21)
       => /\ money = round_money - bet + ((bet * 3) \div 2)
          /\ money > round_money - bet
          /\ pc = "RoundEnd" => out = "Dealer busts! You win!"

C12_Witness ==
    /\ pc = "RoundEnd"
    /\ dealer_played
    /\ DealerBest > 21
    /\ DealerBest > PlayerBest
    /\ out = "Dealer busts! You win!"
    /\ bet > 0
    /\ money = round_money - bet + ((bet * 3) \div 2)

\* C13: whenever the resolution is reached the player's best total is at
\* most 21.
C13_PlayerBestAtMost21 ==
    (pc \in { "DealerTurn", "Resolution" } \/ dealer_played) => PlayerBest <= 21

C13_Witness ==
    /\ pc = "Resolution"
    /\ \E i \in DOMAIN player_hand : player_hand[i].value = 1
    /\ Len(PlayerTotals) = 1
    /\ PlayerBest <= 21

\* C14: an answer to the hit/stand question that starts with neither h nor s
\* (in either case) changes neither hand, nor the deck, nor the bankroll, and
\* the player is asked again.
C14_IgnoredStep ==
    LET answer == to_lowercase(stdin_line')
    IN  (/\ pc = "AwaitDecision"
         /\ ~starts_with(answer, "h")
         /\ ~starts_with(answer, "s"))
        => /\ UNCHANGED << player_hand, dealer_hand, deck, money, bet >>
           /\ pc' = "PlayerTurn"
           /\ Promptable(hand_scores(player_hand'))

C14_OtherAnswerIgnored == [][C14_IgnoredStep]_vars

C14_Witness ==
    /\ pc = "PlayerTurn"
    /\ stdin_line = Line(<< " ", "h" >>)
    /\ Len(player_hand) = 3
    /\ Promptable(PlayerTotals)

\* C15: the bankroll is never negative, it is positive whenever a bet is asked
\* for, and a round ends with a bankroll of zero only when the whole bankroll
\* was bet and the player lost or bust.
C15_BankrollNonNegative ==
    /\ money >= 0
    /\ pc = "Betting" => money > 0
    /\ (RoundOver /\ money = 0)
       => /\ bet = round_money
          /\ \/ AllOver21(PlayerTotals)
             \/ dealer_played /\ DealerBest <= 21 /\ DealerBest > PlayerBest

C15_Witness ==
    /\ pc = "RoundEnd"
    /\ money = 0
    /\ bet = 1000
    /\ dealer_played
    /\ DealerBest > PlayerBest

\* C16: a round resolved as a player win ends with a bankroll strictly above
\* the bankroll before the bet was placed, for every accepted bet.
C16_WinBeatsPush ==
    (/\ RoundOver
     /\ dealer_played
     /\ \/ DealerBest > 21
        \/ DealerBest <= 21 /\ DealerBest < PlayerBest)
    => money > round_money

CardsOf(s) == { s[i] : i \in DOMAIN s }
Distinct(s) == Cardinality(CardsOf(s)) = Len(s)

C17_Cards ==
    /\ Distinct(deck) /\ Distinct(player_hand) /\ Distinct(dealer_hand)
    /\ CardsOf(deck) \cap CardsOf(player_hand) = {}
    /\ CardsOf(deck) \cap CardsOf(dealer_hand) = {}
    /\ CardsOf(player_hand) \cap CardsOf(dealer_hand) = {}
    /\ CardsOf(deck) \cup CardsOf(player_hand) \cup CardsOf(dealer_hand)
          \subseteq { Card(v, Suits[s]) : v \in 1..13, s \in 1..4 }
    /\ Len(deck) = 52 - drawn

C17_DrawStep ==
    IF drawn' # drawn \/ deck' # deck
    THEN /\ drawn' = drawn + 1
         /\ deck # << >>
         /\ deck = Append(deck', deck[Len(deck)])
         /\ \/ /\ player_hand' = Append(player_hand, deck[Len(deck)])
               /\ dealer_hand' = dealer_hand
            \/ /\ dealer_hand' = Append(dealer_hand, deck[Len(deck)])
               /\ player_hand' = player_hand
    ELSE /\ player_hand' \in { player_hand, << >> }
         /\ dealer_hand' \in { dealer_hand, << >> }

\* C17: deck, player hand and dealer hand are pairwise disjoint sets of
\* distinct cards of the 52; every draw takes exactly the last card of the
\* deck and appends it to exactly one hand; and the deck holds 52 minus the
\* number of cards drawn so far in the session.
C17_NoReplacement == [][C17_Cards /\ C17_Cards' /\ C17_DrawStep]_vars

C17_Witness ==
    /\ rounds = 2
    /\ Len(player_hand) = 3
    /\ Len(dealer_hand) = 3
    /\ drawn > 6
    /\ Len(deck) = 52 - drawn
    /\ C17_Cards

\* C18: the player's base total never exceeds 30 and the dealer's never
\* exceeds 26, so neither the total nor the total + 10 computed by hand_scores
\* leaves the range of i8.
C18_TotalsFitI8 ==
    /\ RefBase(player_hand, Len(player_hand)) <= 30
    /\ RefBase(dealer_hand, Len(dealer_hand)) <= 26
    /\ RefBase(player_hand, Len(player_hand)) + 10 <= I8Max
    /\ RefBase(dealer_hand, Len(dealer_hand)) + 10 <= I8Max
    /\ \A i \in DOMAIN player_scores : player_scores[i] \in 0..I8Max
    /\ \A i \in DOMAIN dealer_scores : dealer_scores[i] \in 0..I8Max

C18_Witness ==
    /\ pc = "RoundEnd"
    /\ RefBase(player_hand, Len(player_hand)) = 30
    /\ player_scores = << 30 >>

====
